---- MODULE Spec2Model ----
(***************************************************************************)
(* A model of src/app.js: the chat widget's message log and send/reply     *)
(* cycle, and its rendering pipeline (parseMarkdownTables, markdownToHTML, *)
(* sanitizeHTML, escapeHTML, processReplyContent).                         *)
(*                                                                         *)
(* A JavaScript string is modelled as a sequence of chunks.  A chunk is a  *)
(* TLA+ string standing for the characters it spells.  Every character a   *)
(* rule of the pipeline looks for (backtick, star, underscore, pipe, dash,  *)
(* colon, hash, angle brackets, space, newline and so on) is a chunk of    *)
(* its own; the longer chunks are words, the                               *)
(* start of a tag "<name", a closing tag "</name>", the start of a quoted  *)
(* attribute " name=\"" and the character references "&lt;" "&gt;"         *)
(* "&amp;" "&quot;".                                                       *)
(***************************************************************************)
EXTENDS Integers, Sequences, FiniteSets, TLC

VARIABLES
  messages,     \* app.js:47   the message log
  view,         \* app.js:38   the rows of #messages, as render() left them
  inputValue,   \* app.js:39   elInput.value
  inputOff,     \* app.js:39   elInput.disabled
  btnOff,       \* app.js:40   elBtnSend.disabled
  thinkingOn,   \* app.js:41   #thinking is shown (class "hidden" absent)
  calls,        \* the sendText activations suspended at an await
  sent,         \* number of requests handed to fetch so far
  stage,        \* pure-function specifications: the stage applied
  arg,          \* pure-function specifications: its input
  out           \* pure-function specifications: what it returned

vars == <<messages, view, inputValue, inputOff, btnOff, thinkingOn, calls, sent,
          stage, arg, out>>

chatVars == <<messages, view, inputValue, inputOff, btnOff, thinkingOn, calls, sent>>
pureVars == <<stage, arg, out>>

-----------------------------------------------------------------------------
(* Sequences *)

Last(s) == s[Len(s)]

Min(S) == CHOOSE x \in S : \A y \in S : x <= y
Max(S) == CHOOSE x \in S : \A y \in S : x >= y

\* The members of a set of numbers, in increasing order.
Sorted(S) == [k \in 1..Cardinality(S) |-> CHOOSE x \in S : Cardinality({y \in S : y <= x}) = k]

\* CHOOSE done \in {F(v) : v \in {x}} : TRUE is F(x), x evaluated first: one
\* statement after another.

RECURSIVE Concat(_)
Concat(ss) ==
  IF Len(ss) = 0 THEN <<>>
  ELSE IF Len(ss) = 1 THEN ss[1]
  ELSE LET h == Len(ss) \div 2
       IN Concat(SubSeq(ss, 1, h)) \o Concat(SubSeq(ss, h + 1, Len(ss)))

Range(s) == {s[i] : i \in 1..Len(s)}

\* s starts with the chunks of p.
StartsWith(s, p) == Len(s) >= Len(p) /\ SubSeq(s, 1, Len(p)) = p

\* p occurs in s at position i.
OccursAt(s, p, i) == i >= 1 /\ i + Len(p) - 1 <= Len(s) /\ SubSeq(s, i, i + Len(p) - 1) = p

\* All sequences over S of length at most n.
RECURSIVE SeqsUpTo(_, _)
SeqsUpTo(S, n) ==
  IF n = 0 THEN {<<>>}
  ELSE LET shorter == SeqsUpTo(S, n - 1)
       IN shorter \cup {Append(s, x) : s \in {t \in shorter : Len(t) = n - 1}, x \in S}

-----------------------------------------------------------------------------
(* JavaScript values, as far as the guards of the rendering stages tell    *)
(* them apart.                                                             *)

Str(s)    == [ty |-> "string",    s |-> s,    n |-> 0]
Num(n)    == [ty |-> "number",    s |-> <<>>, n |-> n]
JsNull    == [ty |-> "null",      s |-> <<>>, n |-> 0]
Undefined == [ty |-> "undefined", s |-> <<>>, n |-> 0]
JsObject  == [ty |-> "object",    s |-> <<>>, n |-> 0]

EmptyString == Str(<<>>)

\* typeof v
TypeOf(v) == IF v.ty = "null" THEN "object" ELSE v.ty

\* !v
Falsy(v) ==
  \/ v.ty \in {"null", "undefined"}
  \/ v.ty = "string" /\ v.s = <<>>
  \/ v.ty = "number" /\ v.n = 0

DigitChunk(n) == CASE n = 0 -> "0" [] n = 1 -> "1" [] n = 2 -> "2" [] n = 3 -> "3"
                   [] n = 4 -> "4" [] n = 5 -> "5" [] n = 6 -> "6" [] n = 7 -> "7"
                   [] n = 8 -> "8" [] n = 9 -> "9"

RECURSIVE Digits(_)
Digits(n) == IF n < 10 THEN <<DigitChunk(n)>> ELSE Append(Digits(n \div 10), DigitChunk(n % 10))

\* String(v), the conversion a DOM string attribute applies to what it is given.
JsToString(v) ==
  CASE v.ty = "string"    -> v.s
    [] v.ty = "number"    -> Digits(v.n)
    [] v.ty = "null"      -> <<"null">>
    [] v.ty = "undefined" -> <<"undefined">>
    [] v.ty = "object"    -> <<"[object Object]">>


-----------------------------------------------------------------------------
(* The chunks the pipeline gives a meaning to. *)

\* app.js:215-220
allowedTags ==
  {"b", "i", "u", "strong", "em", "del", "br", "p", "div", "span",
   "ul", "ol", "li", "a", "h1", "h2", "h3", "h4", "h5", "h6",
   "table", "thead", "tbody", "tr", "td", "th",
   "blockquote", "code", "pre", "hr", "img"}

\* Tags outside the allow-list that the inputs of the model may hold.
OtherTags == {"script", "iframe", "form"}

TagNames == allowedTags \cup OtherTags

\* Elements the HTML parser gives no children and the serializer no end tag.
VoidTags == {"br", "hr", "img"}

\* Attribute names the inputs of the model may hold, beside the allow-listed ones.
AttrNames ==
  {"href", "target", "rel", "src", "alt", "style", "width", "height",
   "class", "colspan", "rowspan", "onclick", "onerror", "id", "title"}

TagStart(n)  == "<" \o n
TagClose(n)  == "</" \o n \o ">"
AttrStart(a) == " " \o a \o "=\""

TagStarts  == {TagStart(n) : n \in TagNames}
TagCloses  == {TagClose(n) : n \in TagNames}
AttrStarts == {AttrStart(a) : a \in AttrNames}

TagStartName == [c \in TagStarts |-> CHOOSE n \in TagNames : TagStart(n) = c]
TagCloseName == [c \in TagCloses |-> CHOOSE n \in TagNames : TagClose(n) = c]
AttrStartName == [c \in AttrStarts |-> CHOOSE a \in AttrNames : AttrStart(a) = c]

\* The backtick character (a TLA+ string cannot hold one).
Backtick == "[backtick]"

Digit == {"0", "1", "2", "3", "4", "5", "6", "7", "8", "9"}

\* The chunks made of \w characters only.
WordChunks == Digit \cup {"_", "a", "b", "c", "x", "y", "js", "A", "B"} \cup TagNames \cup AttrNames

Whitespace == {" ", "\n", "\t"}

\* The chunk spells one character.
OneChar(c) == Len(c) = 1 \/ c = Backtick

\* The chunk holds a "<".
HasLt(c) == c = "<" \/ c \in TagStarts \/ c \in TagCloses
\* The chunk's first character is "<"; its last character is ">".
StartsLt(c) == HasLt(c)
EndsGt(c) == c = ">" \/ c \in TagCloses

\* Character classes of the regular expressions of app.js, by name: dot is
\* the dot and the class of all but newline, any is the class of \s and \S,
\* sepchar the class of whitespace, dash, colon and pipe, rulechar the class
\* of dash, star and underscore, bullet the class of dash, star and plus.
\* A class takes a chunk when it takes every character the chunk spells.
InClass(k, c) ==
  CASE k = "dot"          -> c # "\n"
    [] k = "any"          -> TRUE
    [] k = "space"        -> c \in Whitespace
    [] k = "word"         -> c \in WordChunks
    [] k = "digit"        -> c \in Digit
    [] k = "sepchar"      -> c \in Whitespace \cup {"-", ":", "|"}
    [] k = "rulechar"     -> c \in {"-", "*", "_"}
    [] k = "bullet"       -> c \in {"-", "*", "+"}
    [] k = "notBacktick"  -> c # Backtick
    [] k = "notRBracket"  -> c # "]"
    [] k = "notRParen"    -> c # ")"
    [] k = "notLt"        -> ~HasLt(c)

-----------------------------------------------------------------------------
(* Regular expressions.  Match gives the ways r matches s from position i  *)
(* in the order a backtracking matcher tries them, so that the first is    *)
(* the match String.prototype.replace and RegExp.prototype.test use.       *)

Lit(c)    == [op |-> "lit", c |-> c]
Cls(k)    == [op |-> "cls", c |-> k]
Cat(rs)   == [op |-> "cat", rs |-> rs]
Alt(rs)   == [op |-> "alt", rs |-> rs]
Grp(n, r) == [op |-> "grp", n |-> n, r |-> r]
Rep(r, min, max, lazy) == [op |-> "rep", r |-> r, min |-> min, max |-> max, lazy |-> lazy]
Star(r)     == Rep(r, 0, -1, FALSE)
Plus(r)     == Rep(r, 1, -1, FALSE)
Opt(r)      == Rep(r, 0, 1, FALSE)
LazyStar(r) == Rep(r, 0, -1, TRUE)
LazyPlus(r) == Rep(r, 1, -1, TRUE)
Bol(m)    == [op |-> "bol", m |-> m]   \* ^ ; m: the m flag is set
Eol(m)    == [op |-> "eol", m |-> m]   \* $
Lits(cs)  == Cat([i \in 1..Len(cs) |-> Lit(cs[i])])

MaxGroup == 2
NoGroups == [k \in 1..MaxGroup |-> <<0, 0>>]

\* r matches one chunk at a time; r takes the chunk c.
OneChunk(r) == r.op \in {"lit", "cls"}
Takes(r, c) == IF r.op = "lit" THEN c = r.c ELSE InClass(r.c, c)

\* A repetition of a one-chunk expression: the run of chunks it can take
\* from i, and the places it can stop, the longest first unless it is lazy.
MatchRun(r, s, i, g) ==
  LET bad   == {j \in i..Len(s) : ~Takes(r.r, s[j])}
      avail == (IF bad = {} THEN Len(s) + 1 ELSE Min(bad)) - i
      most  == IF r.max >= 0 /\ r.max < avail THEN r.max ELSE avail
      n     == most - r.min + 1
  IN IF n <= 0 THEN <<>>
     ELSE [t \in 1..n |->
             [e |-> IF r.lazy THEN i + r.min + t - 1 ELSE i + most - t + 1, g |-> g]]

RECURSIVE Match(_, _, _, _)
RECURSIVE MatchCat(_, _, _, _, _)
RECURSIVE MatchRep(_, _, _, _, _)

MatchCat(rs, k, s, i, g) ==
  IF k > Len(rs) THEN <<[e |-> i, g |-> g]>>
  ELSE CHOOSE done \in
         {Concat([j \in 1..Len(ms) |-> MatchCat(rs, k + 1, s, ms[j].e, ms[j].g)]) :
          ms \in {Match(rs[k], s, i, g)}} : TRUE

\* The ways to stop here and the ways to go on, in the order they are tried.
Tried(lazy, stop, more) == IF lazy THEN stop \o more ELSE more \o stop

MatchRep(r, count, s, i, g) ==
  CHOOSE done \in
    {Tried(r.lazy,
           IF count >= r.min THEN <<[e |-> i, g |-> g]>> ELSE <<>>,
           Concat([j \in 1..Len(ms) |->
                     IF ms[j].e > i THEN MatchRep(r, count + 1, s, ms[j].e, ms[j].g)
                     ELSE <<>>])) :
     ms \in {IF r.max >= 0 /\ count >= r.max THEN <<>> ELSE Match(r.r, s, i, g)}} : TRUE

Match(r, s, i, g) ==
  CASE r.op = "lit" -> IF i <= Len(s) /\ s[i] = r.c THEN <<[e |-> i + 1, g |-> g]>> ELSE <<>>
    [] r.op = "cls" -> IF i <= Len(s) /\ InClass(r.c, s[i]) THEN <<[e |-> i + 1, g |-> g]>>
                       ELSE <<>>
    [] r.op = "cat" -> MatchCat(r.rs, 1, s, i, g)
    [] r.op = "alt" -> Concat([k \in 1..Len(r.rs) |-> Match(r.rs[k], s, i, g)])
    [] r.op = "rep" -> IF OneChunk(r.r) THEN MatchRun(r, s, i, g) ELSE MatchRep(r, 0, s, i, g)
    [] r.op = "grp" -> CHOOSE done \in
                         {[j \in 1..Len(ms) |->
                             [e |-> ms[j].e, g |-> [ms[j].g EXCEPT ![r.n] = <<i, ms[j].e>>]]] :
                          ms \in {Match(r.r, s, i, g)}} : TRUE
    [] r.op = "bol" -> IF i = 1 \/ (r.m /\ i > 1 /\ s[i - 1] = "\n")
                       THEN <<[e |-> i, g |-> g]>> ELSE <<>>
    [] r.op = "eol" -> IF i = Len(s) + 1 \/ (r.m /\ i <= Len(s) /\ s[i] = "\n")
                       THEN <<[e |-> i, g |-> g]>> ELSE <<>>

\* r.test(s)
Test(r, s) == \E i \in 1..Len(s) + 1 : Match(r, s, i, NoGroups) # <<>>

\* The matches a /g replace visits: leftmost first, none overlapping.  The
\* search goes on from the end of a match, one further on after an empty one.
NextMatch(r, s, st, i) ==
  IF i < st.from THEN st
  ELSE CHOOSE done \in
         {IF ms = <<>> THEN st
          ELSE [ms   |-> Append(st.ms, [b |-> i, e |-> ms[1].e, g |-> ms[1].g]),
                from |-> IF ms[1].e = i THEN i + 1 ELSE ms[1].e] :
          ms \in {Match(r, s, i, NoGroups)}} : TRUE

\* The search over the positions lo..hi, one half after the other.
RECURSIVE Search(_, _, _, _, _)
Search(r, s, lo, hi, st) ==
  IF lo > hi THEN st
  ELSE IF lo = hi THEN NextMatch(r, s, st, lo)
  ELSE LET mid == (lo + hi) \div 2
       IN CHOOSE done \in {Search(r, s, mid + 1, hi, v) : v \in {Search(r, s, lo, mid, st)}} : TRUE

Matches(r, s) == Search(r, s, 1, Len(s) + 1, [ms |-> <<>>, from |-> 1]).ms

\* The text of the match, and of its n-th group ("" when the group took no part).
Whole(s, m)    == SubSeq(s, m.b, m.e - 1)
Group(s, m, n) == IF m.g[n] = <<0, 0>> THEN <<>> ELSE SubSeq(s, m.g[n][1], m.g[n][2] - 1)

\* s.replace(r, F) for a regular expression r with the g flag; F is given the
\* match and its number, from 0.
ReplaceEach(r, s, F(_, _)) ==
  CHOOSE done \in {Concat([k \in 1..Len(ms) |->
                          SubSeq(s, IF k = 1 THEN 1 ELSE ms[k - 1].e, ms[k].b - 1)
                          \o F(ms[k], k - 1)])
                 \o SubSeq(s, IF ms = <<>> THEN 1 ELSE Last(ms).e, Len(s)) :
                 ms \in {Matches(r, s)}} : TRUE

ReplaceAll(r, s, F(_)) == ReplaceEach(r, s, LAMBDA m, k : F(m))

\* s.indexOf(p), from 1; 0 when p does not occur.
IndexOf(s, p) ==
  LET hits == {i \in 1..Len(s) : OccursAt(s, p, i)}
  IN IF hits = {} THEN 0 ELSE Min(hits)

\* s.replace(p, t) for a string p: the first occurrence only.
ReplaceFirst(s, p, t) ==
  LET i == IndexOf(s, p)
  IN IF i = 0 THEN s ELSE SubSeq(s, 1, i - 1) \o t \o SubSeq(s, i + Len(p), Len(s))

\* s.trim()
Trim(s) ==
  LET inked == {i \in 1..Len(s) : s[i] \notin Whitespace}
  IN IF inked = {} THEN <<>> ELSE SubSeq(s, Min(inked), Max(inked))

\* s.split(c) for a one-character separator c.
Split(s, c) ==
  LET cuts == Sorted({i \in 1..Len(s) : s[i] = c})
      n    == Len(cuts)
  IN [k \in 1..n + 1 |->
        SubSeq(s, IF k = 1 THEN 1 ELSE cuts[k - 1] + 1, IF k = n + 1 THEN Len(s) ELSE cuts[k] - 1)]

-----------------------------------------------------------------------------
(* HTML: the parser behind the innerHTML setter, the DOM tree, and the     *)
(* serializer behind the innerHTML getter.  The parser is the browser's;   *)
(* it is modelled without the insertion-mode corrections of the HTML       *)
(* standard (implied end tags, foster parenting, raw-text elements).       *)

Entities == {"&lt;", "&gt;", "&amp;", "&quot;"}

\* The character a character reference stands for.
EntityChar(c) ==
  CASE c = "&lt;" -> "<" [] c = "&gt;" -> ">" [] c = "&amp;" -> "&" [] c = "&quot;" -> "\""

\* Upper-case spellings the inputs of the model may hold, with their lower case.
CasePairs ==
  {<<"javascript:", "JavaScript:">>, <<"javascript:", "JAVASCRIPT:">>,
   <<"data:", "DATA:">>, <<"image/", "Image/">>}

\* String.prototype.toLowerCase, chunk by chunk.
LowerChunk(c) ==
  IF \E p \in CasePairs : p[2] = c THEN (CHOOSE p \in CasePairs : p[2] = c)[1] ELSE c

ToLowerCase(s) == [i \in 1..Len(s) |-> LowerChunk(s[i])]

\* The finer chunks that spell the characters of a chunk.
Spell(c) ==
  CASE c \in TagStarts -> <<"<", TagStartName[c]>>
    [] c \in TagCloses -> <<"<", "/", TagCloseName[c], ">">>
    [] c = "&lt;"      -> <<"&", "lt;">>
    [] c = "&gt;"      -> <<"&", "gt;">>
    [] c = "&amp;"     -> <<"&", "amp;">>
    [] c = "&quot;"    -> <<"&", "quot;">>
    [] OTHER           -> <<c>>

\* Nodes of the tree.  A text node holds the characters of its data.
TextNode(cs)          == [tag |-> "#text", attrs |-> <<>>, kids |-> <<>>, text |-> cs]
Element(n, as, kids)  == [tag |-> n, attrs |-> as, kids |-> kids, text |-> <<>>]
IsElement(node)       == node.tag # "#text"

\* Tokens of the HTML tokenizer.
TextTok(c)     == [t |-> "text",  n |-> "", a |-> <<>>, c |-> c]
OpenTok(n, as) == [t |-> "open",  n |-> n,  a |-> as,   c |-> ""]
CloseTok(n)    == [t |-> "close", n |-> n,  a |-> <<>>, c |-> ""]

HasAttr(as, name) == \E i \in 1..Len(as) : as[i].name = name
\* A second attribute of the same name is dropped by the tokenizer.
AddAttr(as, name, value) ==
  IF HasAttr(as, name) THEN as ELSE Append(as, [name |-> name, value |-> value])

\* The tokenizer.  st.mode is "data", "tag" (inside <name ... >) or "value"
\* (inside a double-quoted attribute value); st.skip counts the chunks ahead
\* that the token just read has taken with it; st.toks is what was emitted.
DataState == [mode |-> "data", n |-> "", a |-> <<>>, an |-> "", av |-> <<>>,
              skip |-> 0, toks |-> <<>>]

Emit(st, tok, skip) ==
  [mode |-> "data", n |-> "", a |-> <<>>, an |-> "", av |-> <<>>,
   skip |-> skip, toks |-> Append(st.toks, tok)]

TokenizeData(s, st, i) ==
  LET c == s[i] IN
  IF c \in TagStarts THEN [st EXCEPT !.mode = "tag", !.n = TagStartName[c], !.a = <<>>]
  ELSE IF c = "<" /\ i < Len(s) /\ s[i + 1] \in TagNames
  THEN [st EXCEPT !.mode = "tag", !.n = s[i + 1], !.a = <<>>, !.skip = 1]
  ELSE IF c = "<" /\ i + 3 <= Len(s) /\ s[i + 1] = "/" /\ s[i + 2] \in TagNames
          /\ s[i + 3] = ">"
  THEN Emit(st, CloseTok(s[i + 2]), 3)
  ELSE IF c \in TagCloses THEN Emit(st, CloseTok(TagCloseName[c]), 0)
  ELSE IF c \in Entities THEN Emit(st, TextTok(EntityChar(c)), 0)
  ELSE Emit(st, TextTok(c), 0)

TokenizeTag(s, st, i) ==
  LET c == s[i] IN
  IF c = ">" THEN Emit(st, OpenTok(st.n, st.a), 0)
  ELSE IF c \in AttrStarts
  THEN [st EXCEPT !.mode = "value", !.an = AttrStartName[c], !.av = <<>>]
  ELSE IF c \in AttrNames THEN [st EXCEPT !.a = AddAttr(st.a, c, <<>>)]
  ELSE st

TokenizeValue(s, st, i) ==
  LET c == s[i] IN
  IF c = "\"" THEN [st EXCEPT !.mode = "tag", !.a = AddAttr(st.a, st.an, st.av)]
  ELSE IF c \in Entities THEN [st EXCEPT !.av = Append(st.av, EntityChar(c))]
  ELSE [st EXCEPT !.av = Append(st.av, c)]

TokenizeStep(s, st, i) ==
  IF st.skip > 0 THEN [st EXCEPT !.skip = st.skip - 1]
  ELSE CASE st.mode = "data"  -> TokenizeData(s, st, i)
         [] st.mode = "tag"   -> TokenizeTag(s, st, i)
         [] st.mode = "value" -> TokenizeValue(s, st, i)

\* A tag the input ends inside of emits nothing.
RECURSIVE TokenizeRange(_, _, _, _)
TokenizeRange(s, lo, hi, st) ==
  IF lo > hi THEN st
  ELSE IF lo = hi THEN TokenizeStep(s, st, lo)
  ELSE LET mid == (lo + hi) \div 2
       IN CHOOSE done \in {TokenizeRange(s, mid + 1, hi, v) : v \in {TokenizeRange(s, lo, mid, st)}} : TRUE

Tokenize(s) == TokenizeRange(s, 1, Len(s), DataState).toks

\* Tree construction.  open is the stack of open elements, the innermost
\* last; its first entry is the element the markup is parsed into.  afterPre
\* holds right after the start tag of a pre: a line feed there is ignored.
OpenElement(n, as) == [tag |-> n, attrs |-> as, kids |-> <<>>]

AppendChild(open, node) == [open EXCEPT ![Len(open)].kids = Append(@, node)]

\* Character tokens next to each other make one text node.
AppendText(open, c) ==
  LET kids == Last(open).kids
  IN IF kids # <<>> /\ ~IsElement(Last(kids))
     THEN [open EXCEPT ![Len(open)].kids[Len(kids)].text = Append(@, c)]
     ELSE AppendChild(open, TextNode(<<c>>))

\* The innermost open element is closed and becomes a child of the one around it.
PopElement(open) ==
  LET top == Last(open)
  IN AppendChild(SubSeq(open, 1, Len(open) - 1), Element(top.tag, top.attrs, top.kids))

RECURSIVE PopUntil(_, _)
PopUntil(open, depth) == IF Len(open) <= depth THEN open ELSE PopUntil(PopElement(open), depth)

\* An end tag closes the innermost open element of its name and those inside
\* it; with no such element open it is ignored.
BuildStep(toks, st, i) ==
  LET tok == toks[i] IN
  CASE tok.t = "text" ->
         IF st.afterPre /\ tok.c = "\n" THEN [st EXCEPT !.afterPre = FALSE]
         ELSE [open |-> AppendText(st.open, tok.c), afterPre |-> FALSE]
    [] tok.t = "open" ->
         IF tok.n \in VoidTags
         THEN [open |-> AppendChild(st.open, Element(tok.n, tok.a, <<>>)), afterPre |-> FALSE]
         ELSE [open |-> Append(st.open, OpenElement(tok.n, tok.a)), afterPre |-> tok.n = "pre"]
    [] tok.t = "close" ->
         LET same == {k \in 2..Len(st.open) : st.open[k].tag = tok.n}
         IN [open     |-> IF same = {} THEN st.open ELSE PopUntil(st.open, Max(same) - 1),
             afterPre |-> FALSE]

RECURSIVE BuildRange(_, _, _, _)
BuildRange(toks, lo, hi, st) ==
  IF lo > hi THEN st
  ELSE IF lo = hi THEN BuildStep(toks, st, lo)
  ELSE LET mid == (lo + hi) \div 2
       IN CHOOSE done \in {BuildRange(toks, mid + 1, hi, v) : v \in {BuildRange(toks, lo, mid, st)}} : TRUE

BuildNodes(toks) ==
  LET root == [open |-> <<OpenElement("div", <<>>)>>, afterPre |-> FALSE]
      end  == BuildRange(toks, 1, Len(toks), root)
  IN PopUntil(end.open, 1)[1].kids

\* element.innerHTML = html
ParseHTML(html) == CHOOSE nodes \in {BuildNodes(toks) : toks \in {Tokenize(html)}} : TRUE

\* Serialization escapes & < > in text and & " in attribute values.
EscapeTextChunk(c) ==
  CASE c = "&" -> "&amp;" [] c = "<" -> "&lt;" [] c = ">" -> "&gt;" [] OTHER -> c
EscapeAttrChunk(c) ==
  CASE c = "&" -> "&amp;" [] c = "\"" -> "&quot;" [] OTHER -> c

EscapeText(cs) ==
  LET fine == Concat([i \in 1..Len(cs) |-> Spell(cs[i])])
  IN [i \in 1..Len(fine) |-> EscapeTextChunk(fine[i])]
EscapeAttr(cs) ==
  LET fine == Concat([i \in 1..Len(cs) |-> Spell(cs[i])])
  IN [i \in 1..Len(fine) |-> EscapeAttrChunk(fine[i])]

SerializeAttrs(as) ==
  Concat([i \in 1..Len(as) |->
            <<AttrStart(as[i].name)>> \o EscapeAttr(as[i].value) \o <<"\"">>])

\* element.innerHTML
RECURSIVE SerializeHTML(_)
SerializeHTML(nodes) ==
  Concat([i \in 1..Len(nodes) |->
    LET node == nodes[i] IN
    IF ~IsElement(node) THEN EscapeText(node.text)
    ELSE <<TagStart(node.tag)>> \o SerializeAttrs(node.attrs) \o <<">">>
         \o (IF node.tag \in VoidTags THEN <<>>
             ELSE SerializeHTML(node.kids) \o <<TagClose(node.tag)>>)])

\* node.textContent
RECURSIVE TextContent(_)
TextContent(node) ==
  IF ~IsElement(node) THEN node.text
  ELSE Concat([i \in 1..Len(node.kids) |-> TextContent(node.kids[i])])

\* app.js:257-261.  div.textContent = text makes one text node of the
\* characters of text; div.innerHTML serializes it.
escapeHTML(text) ==
  LET data == IF text.ty \in {"null", "undefined"} THEN <<>> ELSE JsToString(text)
  IN Str(SerializeHTML(IF data = <<>> THEN <<>> ELSE <<TextNode(data)>>))

-----------------------------------------------------------------------------
(* sanitizeHTML, app.js:214-255 *)

\* app.js:221-225.  Declared by sanitizeHTML and read nowhere in it.
allowedAttributes ==
  [a   |-> {"href", "target", "rel"},
   img |-> {"src", "alt", "style", "width", "height"},
   any |-> {"class", "style", "colspan", "rowspan"}]

\* The attribute names the allow-list gives a tag: its own and the "*" ones.
AllowedFor(tag) ==
  (IF tag \in DOMAIN allowedAttributes THEN allowedAttributes[tag] ELSE {})
  \cup allowedAttributes.any

\* element.tagName of an HTML element: the upper-case name.
UpperTag ==
  ("b" :> "B") @@ ("i" :> "I") @@ ("u" :> "U") @@ ("strong" :> "STRONG") @@ ("em" :> "EM")
  @@ ("del" :> "DEL") @@ ("br" :> "BR") @@ ("p" :> "P") @@ ("div" :> "DIV")
  @@ ("span" :> "SPAN") @@ ("ul" :> "UL") @@ ("ol" :> "OL") @@ ("li" :> "LI") @@ ("a" :> "A")
  @@ ("h1" :> "H1") @@ ("h2" :> "H2") @@ ("h3" :> "H3") @@ ("h4" :> "H4") @@ ("h5" :> "H5")
  @@ ("h6" :> "H6") @@ ("table" :> "TABLE") @@ ("thead" :> "THEAD") @@ ("tbody" :> "TBODY")
  @@ ("tr" :> "TR") @@ ("td" :> "TD") @@ ("th" :> "TH") @@ ("blockquote" :> "BLOCKQUOTE")
  @@ ("code" :> "CODE") @@ ("pre" :> "PRE") @@ ("hr" :> "HR") @@ ("img" :> "IMG")
  @@ ("script" :> "SCRIPT") @@ ("iframe" :> "IFRAME") @@ ("form" :> "FORM")

TagName(node) == UpperTag[node.tag]

\* tagName.toLowerCase()
LowerTag(u) == CHOOSE n \in DOMAIN UpperTag : UpperTag[n] = u

\* name.startsWith('on'), over the attribute names of the model.
StartsWithOn(name) == name \in {"onclick", "onerror"}

\* A variant of Dangerous against which C4 is checked: the name and the value
\* are compared as they are written, not in lower case.
DangerousAsWritten(attr) ==
  \/ StartsWithOn(attr.name)
  \/ StartsWith(attr.value, <<"javascript:">>)
  \/ (attr.name = "src" /\ StartsWith(attr.value, <<"data:">>)
      /\ ~StartsWith(attr.value, <<"data:", "image/">>))

\* app.js:241-243: the attribute is removed.
Dangerous(attr) ==
  LET name == LowerChunk(attr.name)
      val  == ToLowerCase(attr.value)
  IN \/ StartsWithOn(name)
     \/ StartsWith(val, <<"javascript:">>)
     \/ (name = "src" /\ StartsWith(val, <<"data:">>) /\ ~StartsWith(val, <<"data:", "image/">>))

\* app.js:239-247
CleanAttrs(attrs) == SelectSeq(attrs, LAMBDA attr : ~Dangerous(attr))

\* app.js:230-252, on the children of a node; gives the children it leaves.
RECURSIVE cleanNode(_)
cleanNode(children) ==
  [i \in 1..Len(children) |->
    LET child == children[i] IN
    IF ~IsElement(child) THEN child
    ELSE IF LowerTag(TagName(child)) \notin allowedTags
         THEN TextNode(TextContent(child))
         ELSE Element(child.tag, CleanAttrs(child.attrs), cleanNode(child.kids))]

\* app.js:214-255.  The innerHTML setter takes null as the empty string and
\* converts any other value to a string.
sanitizeHTML(html) ==
  LET markup == IF html.ty = "null" THEN <<>> ELSE JsToString(html)
  IN Str(CHOOSE done \in {SerializeHTML(cleanNode(childNodes)) :
                         childNodes \in {ParseHTML(markup)}} : TRUE)

-----------------------------------------------------------------------------
(* parseMarkdownTables, app.js:61-137 *)

\* app.js:64   /(?:^|\n)((?:\|[^\n]+\|\s*\n)+)/g
tableRegex ==
  Cat(<<Alt(<<Bol(FALSE), Lit("\n")>>),
        Grp(1, Plus(Cat(<<Lit("|"), Plus(Cls("dot")), Lit("|"), Star(Cls("space")),
                          Lit("\n")>>)))>>)

\* app.js:67   tableBlock.trim().split('\n').filter(line => line.trim())
BlockLines(tableBlock) ==
  SelectSeq(Split(Trim(tableBlock), "\n"), LAMBDA line : Trim(line) # <<>>)

\* app.js:70-75
\* app.js:72, 73   if (trimmed.startsWith('|')) ..., if (trimmed.endsWith('|')) ...
StripFirst(s, c) == IF s # <<>> /\ Head(s) = c THEN Tail(s) ELSE s
StripLast(s, c)  == IF s # <<>> /\ Last(s) = c THEN SubSeq(s, 1, Len(s) - 1) ELSE s

parseTableRow(line) ==
  CHOOSE done \in {[i \in 1..Len(cells) |-> Trim(cells[i])] :
                   cells \in {Split(StripLast(StripFirst(Trim(line), "|"), "|"), "|")}} : TRUE

\* app.js:79   /^\|?[\s\-:\|]+\|?$/
separatorRegex ==
  Cat(<<Bol(FALSE), Opt(Lit("|")), Plus(Cls("sepchar")), Opt(Lit("|")), Eol(FALSE)>>)

\* app.js:77-80
isSeparatorRow(line) ==
  \E trimmed \in {Trim(line)} : Test(separatorRegex, trimmed) /\ "-" \in Range(trimmed)

\* app.js:82-92
parseAlignment(line) ==
  CHOOSE done \in
    {[i \in 1..Len(cells) |->
       LET trimmed    == Trim(cells[i])
           leftColon  == trimmed # <<>> /\ Head(trimmed) = ":"
           rightColon == trimmed # <<>> /\ Last(trimmed) = ":"
       IN IF leftColon /\ rightColon THEN "center"
          ELSE IF rightColon THEN "right" ELSE "left"] : cells \in {parseTableRow(line)}} : TRUE

\* A variant of separatorIndex against which C7 is checked: the loop does not
\* break, and the index is that of the last separator row.
lastSeparatorIndex(lines) ==
  LET found == {i \in 0..Len(lines) - 1 : isSeparatorRow(lines[i + 1])}
  IN IF found = {} THEN -1 ELSE Max(found)

\* app.js:94-100   the index of the first separator row, from 0; -1 when none
separatorIndex(lines) ==
  LET found == {i \in 0..Len(lines) - 1 : isSeparatorRow(lines[i + 1])}
  IN IF found = {} THEN -1 ELSE Min(found)

\* app.js:112, 126   alignments[index] || 'left'
AlignOf(alignments, index) == IF index <= Len(alignments) THEN alignments[index] ELSE "left"

\* A variant of RowHTML against which C8 is checked: the row is emitted as the
\* line it was, pipes and all.
RowAsWritten(cellTag, line, alignments) == line \o <<"\n">>

\* app.js:110-115 and 124-129   one <tr> of <th> or <td> cells
RowHTML(cellTag, line, alignments) ==
  CHOOSE done \in
    {<<"<tr", ">", "\n">>
     \o Concat([k \in 1..Len(cells) |->
                  <<TagStart(cellTag), " style=\"", "text-align:", AlignOf(alignments, k),
                    "\"", ">">> \o cells[k] \o <<TagClose(cellTag), "\n">>])
     \o <<"</tr>", "\n">> : cells \in {parseTableRow(line)}} : TRUE

\* app.js:104-135   the table of a block whose separator row is line sep (from 0)
TableHTML(lines, sep) ==
  CHOOSE done \in
    {<<"\n", "<table", " class=\"", "markdown-table", "\"", ">", "\n", "<thead", ">", "\n">>
     \o Concat([i \in 1..sep |-> RowHTML("th", lines[i], alignments)])
     \o <<"</thead>", "\n">>
     \o (IF sep < Len(lines) - 1
         THEN <<"<tbody", ">", "\n">>
              \o Concat([i \in 1..(Len(lines) - sep - 1) |->
                           RowHTML("td", lines[sep + 1 + i], alignments)])
              \o <<"</tbody>", "\n">>
         ELSE <<>>)
     \o <<"</table>", "\n">> : alignments \in {parseAlignment(lines[sep + 1])}} : TRUE

\* app.js:66-136   the replacement of one match of tableRegex
ReplaceTable(match, tableBlock) ==
  CHOOSE done \in
    {IF Len(lines) < 2 THEN match
     ELSE CHOOSE html \in {IF sep = -1 \/ sep = 0 THEN match ELSE TableHTML(lines, sep) :
                           sep \in {separatorIndex(lines)}} : TRUE :
     lines \in {BlockLines(tableBlock)}} : TRUE

\* app.js:66   text.replace(tableRegex, ...)
TablesOf(text) ==
  ReplaceAll(tableRegex, text, LAMBDA m : ReplaceTable(Whole(text, m), Group(text, m, 1)))

\* app.js:61-137
parseMarkdownTables(text) ==
  IF Falsy(text) \/ TypeOf(text) # "string" THEN EmptyString
  ELSE Str(TablesOf(text.s))

-----------------------------------------------------------------------------
(* markdownToHTML, app.js:142-209 *)

Fence == <<Lit(Backtick), Lit(Backtick), Lit(Backtick)>>

\* app.js:149   the fenced code block: three backticks, (\w*), an optional
\* newline, ([\s\S]*?), three backticks
fenceRegex ==
  Cat(Fence \o <<Grp(1, Star(Cls("word"))), Opt(Lit("\n")), Grp(2, LazyStar(Cls("any")))>>
      \o Fence)

\* app.js:158   the inline code span: a backtick, one or more characters
\* that are no backtick, a backtick
inlineCodeRegex == Cat(<<Lit(Backtick), Grp(1, Plus(Cls("notBacktick"))), Lit(Backtick)>>)

\* app.js:151, 160   code.replace(/&/g, '&amp;').replace(/</g, '&lt;').replace(/>/g, '&gt;')
EscapeCode(code) == EscapeText(code)

\* app.js:154, 162   the placeholder of the index-th protected fragment
Placeholder(name, index) == <<name, "_">> \o Digits(index) \o <<"%%">>
CodeBlockToken(index)    == Placeholder("%%CODEBLOCK", index)
InlineCodeToken(index)   == Placeholder("%%INLINECODE", index)

\* app.js:150-153   what codeBlocks.push stores for a match
CodeBlockHTML(s, m) ==
  LET lang        == Group(s, m, 1)
      escapedCode == Trim(EscapeCode(Group(s, m, 2)))
      langClass   == IF lang # <<>> THEN <<" class=\"", "language-">> \o lang \o <<"\"">>
                     ELSE <<>>
  IN <<"<pre", ">", "<code">> \o langClass \o <<">">> \o escapedCode \o <<"</code>", "</pre>">>

\* app.js:159-161   what inlineCodes.push stores for a match
InlineCodeHTML(s, m) == <<"<code", ">">> \o EscapeCode(Group(s, m, 1)) \o <<"</code>">>

\* app.js:148-155
ProtectFences(s) == ReplaceEach(fenceRegex, s, LAMBDA m, index : CodeBlockToken(index))
codeBlocksOf(s) ==
  CHOOSE done \in {[k \in 1..Len(ms) |-> CodeBlockHTML(s, ms[k])] :
                 ms \in {Matches(fenceRegex, s)}} : TRUE

\* app.js:157-163
ProtectInline(s) == ReplaceEach(inlineCodeRegex, s, LAMBDA m, index : InlineCodeToken(index))
inlineCodesOf(s) ==
  CHOOSE done \in {[k \in 1..Len(ms) |-> InlineCodeHTML(s, ms[k])] :
                 ms \in {Matches(inlineCodeRegex, s)}} : TRUE

\* A line rule /^prefix(.+)$/gm replaced by <tag>$1</tag>.
LineRule(prefix, tag, s) ==
  ReplaceAll(Cat(<<Bol(TRUE)>> \o prefix \o <<Grp(1, Plus(Cls("dot"))), Eol(TRUE)>>), s,
             LAMBDA m : <<TagStart(tag), ">">> \o Group(s, m, 1) \o <<TagClose(tag)>>)

\* An inline rule /open(.+?)close/g replaced by <tag>$1</tag>.
SpanRule(delim, tag, s) ==
  ReplaceAll(Cat(delim \o <<Grp(1, LazyPlus(Cls("dot")))>> \o delim), s,
             LAMBDA m : <<TagStart(tag), ">">> \o Group(s, m, 1) \o <<TagClose(tag)>>)

Hashes(n) == [i \in 1..n |-> Lit("#")]

\* app.js:169   /^[\s]*[-*_]{3,}[\s]*$/gm
HorizontalRules(s) ==
  ReplaceAll(Cat(<<Bol(TRUE), Star(Cls("space")), Rep(Cls("rulechar"), 3, -1, FALSE),
                   Star(Cls("space")), Eol(TRUE)>>), s,
             LAMBDA m : <<"<hr", ">">>)

\* app.js:172-177   /^#{n} (.+)$/gm replaced by <hn>$1</hn>, one statement for
\* each n from 6 down to 1
HeadingTags == <<"h1", "h2", "h3", "h4", "h5", "h6">>
Heading(n, s) == LineRule(Hashes(n) \o <<Lit(" ")>>, HeadingTags[n], s)

\* app.js:180   /^> (.+)$/gm
Blockquotes(s) == LineRule(<<Lit(">"), Lit(" ")>>, "blockquote", s)

\* app.js:181   /<\/blockquote>\n<blockquote>/g
MergeBlockquotes(s) ==
  ReplaceAll(Lits(<<"</blockquote>", "\n", "<blockquote", ">">>), s, LAMBDA m : <<"\n">>)

\* app.js:184-187   /^[\s]*[-*+] ([^\n]+)$/gm, unless the content matches /^[-:\s|]+$/
BulletItems(s) ==
  ReplaceAll(Cat(<<Bol(TRUE), Star(Cls("space")), Cls("bullet"), Lit(" "),
                   Grp(1, Plus(Cls("dot"))), Eol(TRUE)>>), s,
             LAMBDA m :
               IF Test(Cat(<<Bol(FALSE), Plus(Cls("sepchar")), Eol(FALSE)>>), Group(s, m, 1))
               THEN Whole(s, m)
               ELSE <<"<li", ">">> \o Group(s, m, 1) \o <<"</li>">>)

\* app.js:188   /^[\s]*\d+\. (.+)$/gm
NumberedItems(s) ==
  ReplaceAll(Cat(<<Bol(TRUE), Star(Cls("space")), Plus(Cls("digit")), Lit("."), Lit(" "),
                   Grp(1, Plus(Cls("dot"))), Eol(TRUE)>>), s,
             LAMBDA m : <<"<li", ">">> \o Group(s, m, 1) \o <<"</li>">>)

\* app.js:189   /(<li>[^<]*<\/li>\n?)+/g
WrapLists(s) ==
  ReplaceAll(Plus(Cat(<<Lit("<li"), Lit(">"), Star(Cls("notLt")), Lit("</li>"),
                        Opt(Lit("\n"))>>)), s,
             LAMBDA m : <<"<ul", ">">> \o Whole(s, m) \o <<"</ul>">>)

\* app.js:192   /!\[([^\]]*)\]\(([^)]+)\)/g
Images(s) ==
  ReplaceAll(Cat(<<Lit("!"), Lit("["), Grp(1, Star(Cls("notRBracket"))), Lit("]"), Lit("("),
                   Grp(2, Plus(Cls("notRParen"))), Lit(")")>>), s,
             LAMBDA m : <<"<img", " src=\"">> \o Group(s, m, 2) \o <<"\"", " alt=\"">>
                        \o Group(s, m, 1)
                        \o <<"\"", " style=\"", "max-width:100%;", "\"", ">">>)

\* app.js:193   /\[([^\]]+)\]\(([^)]+)\)/g
Links(s) ==
  ReplaceAll(Cat(<<Lit("["), Grp(1, Plus(Cls("notRBracket"))), Lit("]"), Lit("("),
                   Grp(2, Plus(Cls("notRParen"))), Lit(")")>>), s,
             LAMBDA m : <<"<a", " href=\"">> \o Group(s, m, 2)
                        \o <<"\"", " target=\"", "_", "blank", "\"", " rel=\"",
                             "noopener noreferrer", "\"", ">">>
                        \o Group(s, m, 1) \o <<"</a>">>)

\* app.js:194-198
BoldStars(s)         == SpanRule(<<Lit("*"), Lit("*")>>, "strong", s)
BoldUnderscores(s)   == SpanRule(<<Lit("_"), Lit("_")>>, "strong", s)
ItalicStars(s)       == SpanRule(<<Lit("*")>>, "em", s)
ItalicUnderscores(s) == SpanRule(<<Lit("_")>>, "em", s)
Strike(s)            == SpanRule(<<Lit("~"), Lit("~")>>, "del", s)

\* app.js:201   /  \n/g
HardBreaks(s) ==
  ReplaceAll(Lits(<<" ", " ", "\n">>), s, LAMBDA m : <<"<br", ">", "\n">>)

\* app.js:202   /([^>\n])\n([^<\n])/g.  The two classes take one character
\* each: the last of the chunk before the newline and the first of the chunk
\* after it.
SoftBreakAt(s, i) ==
  /\ s[i] = "\n" /\ i > 1 /\ i < Len(s)
  /\ s[i - 1] # "\n" /\ ~EndsGt(s[i - 1])
  /\ s[i + 1] # "\n" /\ ~StartsLt(s[i + 1])

\* The newlines a /g replace visits: a one-character chunk a match has taken
\* as its $2 is not the $1 of the next one.
SoftBreakStep(s, st, i) ==
  IF SoftBreakAt(s, i) /\ st.taken # i - 1
  THEN [at |-> st.at \cup {i}, taken |-> IF OneChar(s[i + 1]) THEN i + 1 ELSE 0]
  ELSE st

RECURSIVE SoftBreakRange(_, _, _, _)
SoftBreakRange(s, lo, hi, st) ==
  IF lo > hi THEN st
  ELSE IF lo = hi THEN SoftBreakStep(s, st, lo)
  ELSE LET mid == (lo + hi) \div 2
       IN CHOOSE done \in {SoftBreakRange(s, mid + 1, hi, v) : v \in {SoftBreakRange(s, lo, mid, st)}} : TRUE

SoftBreakPlaces(s) == SoftBreakRange(s, 1, Len(s), [at |-> {}, taken |-> 0]).at

\* '$1<br>\n$2'
SoftBreaks(s) ==
  CHOOSE done \in {Concat([i \in 1..Len(s) |->
                          IF i \in at THEN <<"<br", ">", "\n">> ELSE <<s[i]>>]) :
                 at \in {SoftBreakPlaces(s)}} : TRUE

\* app.js:205, 206   forEach((code, index) => html = html.replace(token, code))
\* html after the first k fragments are put back.
RECURSIVE Restore(_, _, _, _)
Restore(s, fragments, name, k) ==
  IF k = 0 THEN s
  ELSE CHOOSE done \in {ReplaceFirst(html, Placeholder(name, k - 1), fragments[k]) :
                     html \in {Restore(s, fragments, name, k - 1)}} : TRUE

RestoreAll(s, fragments, name) == Restore(s, fragments, name, Len(fragments))

\* app.js:145-208, statement by statement; k counts the statements that
\* assign html.
Statement(st, k) ==
  CASE k = 1  -> [st EXCEPT !.codeBlocks = codeBlocksOf(st.html), !.html = ProtectFences(st.html)]
    [] k = 2  -> [st EXCEPT !.inlineCodes = inlineCodesOf(st.html),
                            !.html = ProtectInline(st.html)]
    [] k = 3  -> [st EXCEPT !.html = parseMarkdownTables(Str(st.html)).s]
    [] k = 4  -> [st EXCEPT !.html = HorizontalRules(st.html)]
    [] k \in 5..10 -> [st EXCEPT !.html = Heading(11 - k, st.html)]
    [] k = 11 -> [st EXCEPT !.html = Blockquotes(st.html)]
    [] k = 12 -> [st EXCEPT !.html = MergeBlockquotes(st.html)]
    [] k = 13 -> [st EXCEPT !.html = BulletItems(st.html)]
    [] k = 14 -> [st EXCEPT !.html = NumberedItems(st.html)]
    [] k = 15 -> [st EXCEPT !.html = WrapLists(st.html)]
    [] k = 16 -> [st EXCEPT !.html = Images(st.html)]
    [] k = 17 -> [st EXCEPT !.html = Links(st.html)]
    [] k = 18 -> [st EXCEPT !.html = BoldStars(st.html)]
    [] k = 19 -> [st EXCEPT !.html = BoldUnderscores(st.html)]
    [] k = 20 -> [st EXCEPT !.html = ItalicStars(st.html)]
    [] k = 21 -> [st EXCEPT !.html = ItalicUnderscores(st.html)]
    [] k = 22 -> [st EXCEPT !.html = Strike(st.html)]
    [] k = 23 -> [st EXCEPT !.html = HardBreaks(st.html)]
    [] k = 24 -> [st EXCEPT !.html = SoftBreaks(st.html)]
    [] k = 25 -> [st EXCEPT !.html = RestoreAll(st.html, st.inlineCodes, "%%INLINECODE")]
    [] k = 26 -> [st EXCEPT !.html = RestoreAll(st.html, st.codeBlocks, "%%CODEBLOCK")]

Statements == 26

\* The state of markdownToHTML after its first k statements.
RECURSIVE After(_, _)
After(markdown, k) ==
  IF k = 0 THEN [html |-> markdown, codeBlocks |-> <<>>, inlineCodes |-> <<>>]
  ELSE CHOOSE done \in {Statement(st, k) : st \in {After(markdown, k - 1)}} : TRUE

ToHTML(markdown) == After(markdown, Statements).html

\* app.js:142-209
markdownToHTML(markdown) ==
  IF Falsy(markdown) \/ TypeOf(markdown) # "string" THEN EmptyString
  ELSE Str(ToHTML(markdown.s))

\* app.js:263-267
processReplyContent(text) ==
  IF Falsy(text) \/ TypeOf(text) # "string" THEN EmptyString
  ELSE CHOOSE done \in {sanitizeHTML(html) : html \in {markdownToHTML(text)}} : TRUE

-----------------------------------------------------------------------------
(* The page, the message log and the send/reply cycle, app.js:38-47,       *)
(* 269-403.                                                                *)

\* app.js:38-41   whether getElementById finds the element.  The page is not
\* in src/; it is taken to hold all four elements.
Page == [messages |-> TRUE, txtInput |-> TRUE, btnSend |-> TRUE, thinking |-> TRUE]

\* app.js:399   the text of the welcome message.  A phrase (words with single
\* spaces and commas between them) is one chunk: no rule of the pipeline
\* matches a part of it.
Welcome ==
  <<"Hi, I am", " ", "*", "*", "Sky", "*", "*", ".", " ",
    "I love running, I am passionate about charity and full of positive energy", ".", " ",
    "I know every detail of the event inside out and hope to use my expertise to meet your service needs",
    ".", "\n", "\n", "If you have any questions about the", " ", "*", "*",
    "Standard Chartered Taipei Charity Marathon", "*", "*", ",", " ", "feel free to ask me", "!">>

\* app.js:325, 370, 379   an entry of the log (id, ts and isHtml are never read)
userMsg(content)  == [role |-> "user", text |-> content]
botMsg(replyText) == [role |-> "assistant", text |-> replyText]
botErr(friendly)  == [role |-> "assistant", text |-> friendly]

\* A variant of setThinking against which C3 is checked: the indicator is
\* shown and hidden, the controls are left as they are.
setThinkingOnly(ui, on) ==
  IF ~Page.thinking THEN ui ELSE [ui EXCEPT !.thinkingOn = on]

\* app.js:269-281   ui is the state of the controls
setThinking(ui, on) ==
  IF ~Page.thinking THEN ui
  ELSE [thinkingOn |-> on,
        btnOff     |-> IF Page.btnSend THEN on ELSE ui.btnOff,
        inputOff   |-> IF Page.txtInput THEN on ELSE ui.inputOff]

\* A variant of Bubble against which C2 is checked: the text of every message
\* goes through the pipeline of the replies.
BubbleThroughPipeline(m) ==
  [via  |-> IF m.role = "user" THEN "escapeHTML" ELSE "processReplyContent",
   html |-> processReplyContent(Str(m.text)).s]

\* app.js:304-308   what render assigns to bubble.innerHTML, and by which path
Bubble(m) ==
  IF m.role = "user"
  THEN [via |-> "escapeHTML", html |-> escapeHTML(Str(m.text)).s]
  ELSE [via |-> "processReplyContent", html |-> processReplyContent(Str(m.text)).s]

-----------------------------------------------------------------------------
(* The reply, app.js:346-368 and 375-378 *)

\* The HTTP statuses and the status texts of the model.
Statuses == {200, 404, 500}
StatusText(status) ==
  CASE status = 200 -> <<"OK">> [] status = 404 -> <<"Not Found">>
    [] status = 500 -> <<"Internal Server Error">> [] status = 502 -> <<"Bad Gateway">>

\* res.ok
Ok(status) == status >= 200 /\ status <= 299

\* JSON text: a string literal without a raw quote inside, and what it spells.
JsonStringLiteral(cs) ==
  /\ Len(cs) >= 2 /\ cs[1] = "\"" /\ Last(cs) = "\""
  /\ \A i \in 2..Len(cs) - 1 : cs[i] # "\"" \/ cs[i - 1] = "\\"

JsonUnescape(cs) ==
  Concat([i \in 1..Len(cs) - 2 |->
            IF cs[i + 1] = "\\" THEN <<>>
            ELSE IF cs[i] = "\\" THEN <<IF cs[i + 1] = "n" THEN "\n" ELSE cs[i + 1]>>
            ELSE <<cs[i + 1]>>])

\* JSON.stringify of a string
JsonEscape(cs) ==
  <<"\"">> \o Concat([i \in 1..Len(cs) |->
                        CASE cs[i] = "\n" -> <<"\\", "n">>
                          [] cs[i] = "\"" -> <<"\\", "\"">>
                          [] OTHER        -> <<cs[i]>>]) \o <<"\"">>

\* A value JSON.parse gives: null, a string, or an object with no key or
\* with one key whose value is a string.
JsonNull        == [ty |-> "null",   key |-> "", s |-> <<>>]
JsonStr(s)      == [ty |-> "string", key |-> "", s |-> s]
JsonObj(key, s) == [ty |-> "object", key |-> key, s |-> s]

\* JSON.parse(raw), over the bodies of the model; "error" when it throws
JsonParse(raw) ==
  CASE raw = <<"null">>       -> JsonNull
    [] raw = <<"{", "}">>     -> JsonObj("", <<>>)
    [] JsonStringLiteral(raw) -> JsonStr(JsonUnescape(raw))
    [] /\ Len(raw) >= 8 /\ raw[1] = "{" /\ raw[2] = "\"" /\ raw[4] = "\"" /\ raw[5] = ":"
       /\ Last(raw) = "}" /\ JsonStringLiteral(SubSeq(raw, 6, Len(raw) - 1))
                              -> JsonObj(raw[3], JsonUnescape(SubSeq(raw, 6, Len(raw) - 1)))
    [] OTHER                  -> [ty |-> "error", key |-> "", s |-> <<>>]

\* app.js:346-352
DataOf(raw) ==
  IF raw = <<>> THEN JsonObj("", <<>>)
  ELSE IF JsonParse(raw).ty = "error" THEN JsonObj("errorRaw", raw)
  ELSE JsonParse(raw)

\* data.key, "" standing for undefined as well
Field(data, key) == IF data.ty = "object" /\ data.key = key THEN data.s ELSE <<>>

\* app.js:356   (data && (data.error || data.body || data.message)) ?? raw
serverMsg(data, raw) ==
  CASE data.ty = "null"   -> raw
    [] data.ty = "string" -> IF data.s = <<>> THEN <<>> ELSE raw
    [] data.ty = "object" ->
         IF Field(data, "error") # <<>> THEN Field(data, "error")
         ELSE IF Field(data, "body") # <<>> THEN Field(data, "body")
         ELSE IF data.key = "message" THEN data.s
         ELSE raw

\* The em dash of app.js:357.
EmDash == "[em dash]"

\* app.js:354-358   the message of the error a reply that is not ok throws
HttpError(status, data, raw) ==
  IF status \in {502, 404} THEN <<"Network unstable, please try again", "!">>
  ELSE <<"HTTP", " ">> \o Digits(status) \o <<" ">> \o StatusText(status)
       \o <<" ", EmDash, " ">> \o serverMsg(data, raw)

\* JSON.stringify(data, null, 2)
JsonStringify(data) ==
  CASE data.ty = "null"   -> <<"null">>
    [] data.ty = "string" -> JsonEscape(data.s)
    [] data.ty = "object" ->
         IF data.key = "" THEN <<"{", "}">>
         ELSE <<"{", "\n", " ", " ", "\"", data.key, "\"", ":", " ">> \o JsonEscape(data.s)
              \o <<"\n", "}">>

\* app.js:360-368
replyText(data) ==
  IF data.ty = "string"
  THEN (IF Trim(data.s) = <<>> THEN <<"(", "Empty response", ")">> ELSE Trim(data.s))
  ELSE IF Field(data, "text") # <<>> THEN Field(data, "text")
  ELSE IF Field(data, "message") # <<>> THEN Field(data, "message")
  ELSE IF data.ty = "object" /\ data.key = ""
       THEN <<"Network unstable, please try again">>
       ELSE JsonStringify(data)

\* app.js:378   navigator.onLine decides between the offline notice and err.message
friendly(online, message) ==
  IF ~online
  THEN <<"You are currently offline", ".", " ",
         "Please check your network connection and try again", ".">>
  ELSE message

-----------------------------------------------------------------------------
(* The state machine of the chat. *)

\* The most sends a behaviour of the model holds.
MaxSends == 2

\* What the user may have typed when a send is asked for.
Inputs ==
  {<<" ">>, <<" ", "*", "*", "b", "*", "*", " ">>,
   <<"<img", " src=\"", "x", "\"", " onerror=\"", "y", "\"", ">">>}

\* The bodies a response may carry.
Bodies ==
  {<<>>, <<"\"", " ", "\"">>,
   <<"{", "\"", "text", "\"", ":", "\"", Backtick, "a", Backtick, " ", "and", " ",
     Backtick, "b", Backtick, "\\", "n", "<script", ">", "x", "</script>", "\"", "}">>,
   <<"<h1", ">", "Bad Gateway", "</h1>">>}

\* The state of the controls, as setThinking reads and leaves it.
Controls == [thinkingOn |-> thinkingOn, btnOff |-> btnOff, inputOff |-> inputOff]

SetControls(ui) ==
  /\ thinkingOn' = ui.thinkingOn
  /\ btnOff' = ui.btnOff
  /\ inputOff' = ui.inputOff

\* The entries the log of the model may hold, and Bubble of each.
ReplyTexts ==
  {Welcome, friendly(FALSE, <<>>), <<"Failed to fetch">>, <<"network error">>}
  \cup {replyText(DataOf(raw)) : raw \in Bodies}
  \cup {HttpError(status, DataOf(raw), raw) : status \in Statuses, raw \in Bodies}

LogEntries == {userMsg(Trim(v)) : v \in Inputs} \cup {botMsg(text) : text \in ReplyTexts}

Bubbles == [m \in LogEntries |-> Bubble(m)]

\* app.js:286-316   the rows render leaves in #messages
render(log) ==
  IF ~Page.messages THEN view
  ELSE [i \in 1..Len(log) |->
          [role |-> log[i].role, via |-> Bubbles[log[i]].via, html |-> Bubbles[log[i]].html]]

\* The pure-function variables take no part in the chat.
PureIdle == stage = "chat" /\ arg = <<>> /\ out = <<>>

\* app.js:396-403   the script has run: the welcome message is pushed and rendered
Init ==
  /\ messages = <<botMsg(Welcome)>>
  /\ view = [i \in 1..1 |-> [role |-> "assistant", via |-> Bubbles[botMsg(Welcome)].via,
                             html |-> Bubbles[botMsg(Welcome)].html]]
  /\ inputValue = <<>>
  /\ inputOff = FALSE /\ btnOff = FALSE /\ thinkingOn = FALSE
  /\ calls = <<>>
  /\ sent = 0
  /\ PureIdle

\* The user edits the input; a disabled input cannot be edited.
TypeInput ==
  /\ Page.txtInput /\ ~inputOff
  /\ \E v \in Inputs : inputValue' = v
  /\ UNCHANGED <<messages, view, inputOff, btnOff, thinkingOn, calls, sent, stage, arg, out>>

\* app.js:321-332   sendText() up to its first await: the request is handed to fetch
sendText ==
  LET content == Trim(inputValue) IN
  IF content = <<>> THEN UNCHANGED vars
  ELSE /\ messages' = Append(messages, userMsg(content))
       /\ inputValue' = (IF Page.txtInput THEN <<>> ELSE inputValue)
       /\ view' = render(messages')
       /\ SetControls(setThinking(Controls, TRUE))
       /\ calls' = Append(calls, [pc |-> "fetch", status |-> 0])
       /\ sent' = sent + 1
       /\ UNCHANGED pureVars

\* app.js:387   a click on #btnSend; a disabled button fires none
ClickSend == Page.btnSend /\ ~btnOff /\ sent < MaxSends /\ sendText

\* app.js:388-393   Enter in #txtInput; a disabled input gets no key
PressEnter == Page.txtInput /\ ~inputOff /\ sent < MaxSends /\ sendText

Without(s, k) == SubSeq(s, 1, k - 1) \o SubSeq(s, k + 1, Len(s))

\* app.js:370-373   the end of the try block of call k
Replied(k, text) ==
  /\ messages' = Append(messages, botMsg(text))
  /\ SetControls(setThinking(Controls, FALSE))
  /\ view' = render(messages')
  /\ calls' = Without(calls, k)
  /\ UNCHANGED <<inputValue, sent, stage, arg, out>>

\* A variant of Caught against which C10 is checked: the error is dropped,
\* no message is pushed.
CaughtSilently(k, online, message) ==
  /\ SetControls(setThinking(Controls, FALSE))
  /\ messages' = messages
  /\ view' = render(messages')
  /\ calls' = Without(calls, k)
  /\ UNCHANGED <<inputValue, sent, stage, arg, out>>

\* app.js:375-382   the catch block of call k
Caught(k, online, message) ==
  /\ SetControls(setThinking(Controls, FALSE))
  /\ messages' = Append(messages, botErr(friendly(online, message)))
  /\ view' = render(messages')
  /\ calls' = Without(calls, k)
  /\ UNCHANGED <<inputValue, sent, stage, arg, out>>

\* app.js:332   the promise of fetch is fulfilled: the call goes on to res.text()
FetchResolves ==
  \E k \in 1..Len(calls), status \in Statuses :
    /\ calls[k].pc = "fetch"
    /\ calls' = [calls EXCEPT ![k] = [pc |-> "text", status |-> status]]
    /\ UNCHANGED <<messages, view, inputValue, inputOff, btnOff, thinkingOn, sent,
                   stage, arg, out>>

\* app.js:332   the promise of fetch is rejected
FetchRejects ==
  \E k \in 1..Len(calls), online \in BOOLEAN :
    /\ calls[k].pc = "fetch"
    /\ Caught(k, online, <<"Failed to fetch">>)

\* app.js:346-373   the body has arrived: the rest of the try block
BodyArrives ==
  \E k \in 1..Len(calls), raw \in Bodies, online \in BOOLEAN :
    /\ calls[k].pc = "text"
    /\ IF ~Ok(calls[k].status)
       THEN Caught(k, online, HttpError(calls[k].status, DataOf(raw), raw))
       ELSE Replied(k, replyText(DataOf(raw)))

\* app.js:346   the promise of res.text() is rejected
BodyFails ==
  \E k \in 1..Len(calls), online \in BOOLEAN :
    /\ calls[k].pc = "text"
    /\ Caught(k, online, <<"network error">>)

Next ==
  \/ TypeInput
  \/ ClickSend
  \/ PressEnter
  \/ FetchResolves
  \/ FetchRejects
  \/ BodyArrives
  \/ BodyFails

Spec == Init /\ [][Next]_vars

-----------------------------------------------------------------------------
(* The rendering stages as pure functions.  A specification of this part   *)
(* draws an input, applies a stage to it and keeps what it returned in     *)
(* out; the chat takes no part in it.                                      *)

ChatIdle ==
  /\ messages = <<>> /\ view = <<>> /\ inputValue = <<>>
  /\ inputOff = FALSE /\ btnOff = FALSE /\ thinkingOn = FALSE
  /\ calls = <<>> /\ sent = 0

\* All concatenations of at most n of the fragments.
Pieced(fragments, n) == {Concat(ss) : ss \in SeqsUpTo(fragments, n)}

\* Every element of a forest, in document order.
RECURSIVE Elements(_)
Elements(nodes) ==
  Concat([i \in 1..Len(nodes) |->
            IF IsElement(nodes[i]) THEN <<nodes[i]>> \o Elements(nodes[i].kids) ELSE <<>>])

-----------------------------------------------------------------------------
(* sanitizeHTML, app.js:214-255 *)

\* The most fragments a markup of the model is pieced from.
MaxFrags == 2

\* Pieces of markup: tags with attributes the sanitizer removes, keeps and
\* has no rule for, at the top and inside one another; an element outside
\* the allow-list; text; a pre and line feeds.
SanitizeFragments ==
  {<<"<a", " href=\"", "JavaScript:", "x", "\"", " id=\"", "x", "\"", ">">>,
   <<"</a>">>,
   <<"<img", " src=\"", "data:", "image/", "x", "\"", " onerror=\"", "x", "\"", ">">>,
   <<"<img", " src=\"", "DATA:", "x", "\"", " alt=\"", "x", "\"", ">">>,
   <<"<div", " onclick=\"", "x", "\"", " class=\"", "c", "\"", ">">>,
   <<"</div>">>,
   <<"<script", ">", "x", "</script>">>,
   <<"<iframe", " src=\"", "javascript:", "x", "\"", ">">>,
   <<"<pre", ">">>,
   <<"\n", "\n">>,
   <<"x">>,
   <<"&lt;">>}

InitSanitize ==
  /\ stage = "sanitizeHTML"
  /\ arg \in {Str(markup) : markup \in Pieced(SanitizeFragments, MaxFrags)}
  /\ out = <<>>
  /\ ChatIdle

\* sanitizeHTML(arg)
Sanitize ==
  /\ out = <<>>
  /\ out' = <<sanitizeHTML(arg)>>
  /\ UNCHANGED <<chatVars, stage, arg>>

\* sanitizeHTML(sanitizeHTML(arg))
SanitizeAgain ==
  /\ Len(out) = 1
  /\ out' = Append(out, sanitizeHTML(out[1]))
  /\ UNCHANGED <<chatVars, stage, arg>>

NextSanitize == Sanitize \/ SanitizeAgain

SpecSanitize == InitSanitize /\ [][NextSanitize]_vars

\* C1: every element of the HTML sanitizeHTML returns has a tag of the
\* allow-list, and every attribute left on it is in the allowed set of its
\* tag or in the wildcard set.
C1_AllowListClosure ==
  \A k \in 1..Len(out) :
    \A el \in Range(Elements(ParseHTML(out[k].s))) :
      /\ el.tag \in allowedTags
      /\ \A j \in 1..Len(el.attrs) : el.attrs[j].name \in AllowedFor(el.tag)

\* sanitizeHTML('<a href="JavaScript:x" id="x">x') has returned '<a id="x">x</a>'.
C1_IdKept ==
  /\ Len(out) = 1
  /\ arg = Str(<<"<a", " href=\"", "JavaScript:", "x", "\"", " id=\"", "x", "\"", ">", "x">>)
  /\ out[1] = Str(<<"<a", " id=\"", "x", "\"", ">", "x", "</a>">>)

\* The elements cleanNode keeps: those of the allow-list that are in no
\* element outside it.
RECURSIVE KeptElements(_)
KeptElements(nodes) ==
  Concat([i \in 1..Len(nodes) |->
            IF IsElement(nodes[i]) /\ nodes[i].tag \in allowedTags
            THEN <<nodes[i]>> \o KeptElements(nodes[i].kids) ELSE <<>>])

\* The attribute is one the claim has removed: its name starts with "on",
\* its value begins with "javascript:" whatever the case, or it is a src
\* whose value begins with "data:" and not with "data:image/".
Stripped(attr) ==
  \/ StartsWithOn(attr.name)
  \/ StartsWith(ToLowerCase(attr.value), <<"javascript:">>)
  \/ /\ attr.name = "src"
     /\ StartsWith(ToLowerCase(attr.value), <<"data:">>)
     /\ ~StartsWith(ToLowerCase(attr.value), <<"data:", "image/">>)

\* C4: the elements of the HTML sanitizeHTML returns are the elements it
\* keeps, at any depth, each with its attributes less the dangerous ones: no
\* attribute whose name starts with "on", whose value begins with
\* "javascript:" or that is a src with a "data:" value other than
\* "data:image/" is left, and every other attribute, an img src beginning
\* with "data:image/" among them, is still there.
C4_DangerousAttributesStripped ==
  Len(out) >= 1 =>
    LET kept == KeptElements(ParseHTML(arg.s))
        left == Elements(ParseHTML(out[1].s))
    IN /\ Len(left) = Len(kept)
       /\ \A i \in 1..Len(left) :
            /\ left[i].tag = kept[i].tag
            /\ left[i].attrs = SelectSeq(kept[i].attrs, LAMBDA attr : ~Stripped(attr))

\* An img inside a div: onclick and onerror are gone, class and the
\* data:image/ src are kept.
C4_Witness ==
  /\ Len(out) = 1
  /\ arg = Str(<<"<div", " onclick=\"", "x", "\"", " class=\"", "c", "\"", ">",
                 "<img", " src=\"", "data:", "image/", "x", "\"", " onerror=\"", "x", "\"", ">">>)
  /\ out[1] = Str(<<"<div", " class=\"", "c", "\"", ">",
                    "<img", " src=\"", "data:", "image/", "x", "\"", ">", "</div>">>)

\* C6: sanitizeHTML(sanitizeHTML(x)) equals sanitizeHTML(x).
C6_SanitizeIdempotent == Len(out) = 2 => out[2] = out[1]

\* sanitizeHTML('<pre>\n\n') is '<pre>\n</pre>', and sanitizeHTML of that is
\* '<pre></pre>'.
C6_LineFeedLost ==
  /\ arg = Str(<<"<pre", ">", "\n", "\n">>)
  /\ Len(out) = 2
  /\ out[1] = Str(<<"<pre", ">", "\n", "</pre>">>)
  /\ out[2] = Str(<<"<pre", ">", "</pre>">>)

-----------------------------------------------------------------------------
(* parseMarkdownTables, app.js:61-137 *)

\* The most pieces a text of the model is made of.
MaxLines == 4

\* Lines of text, each with its line feed: rows of cells, separator rows
\* with and without colons, a row of one blank cell, an empty line and a
\* line that is no row; and a row with no line feed after it.
TableFragments ==
  {<<"|", "a", "|", "b", "|", "\n">>,
   <<"|", "-", "|", "-", "|", "\n">>,
   <<"|", ":", "-", "|", "-", ":", "|", " ", "\n">>,
   <<"|", " ", "|", "\n">>,
   <<"\n">>,
   <<"x", "\n">>,
   <<"|", "b", "|">>}

InitTables ==
  /\ stage = "parseMarkdownTables"
  /\ arg \in {Str(text) : text \in Pieced(TableFragments, MaxLines)}
  /\ out = <<>>
  /\ ChatIdle

\* parseMarkdownTables(arg)
ParseTables ==
  /\ out = <<>>
  /\ out' = <<parseMarkdownTables(arg)>>
  /\ UNCHANGED <<chatVars, stage, arg>>

\* parseMarkdownTables(parseMarkdownTables(arg))
ParseTablesAgain ==
  /\ Len(out) = 1
  /\ out' = Append(out, parseMarkdownTables(out[1]))
  /\ UNCHANGED <<chatVars, stage, arg>>

NextTables == ParseTables \/ ParseTablesAgain

SpecTables == InitTables /\ [][NextTables]_vars

\* The line is a row of a candidate block, /\|.+\|[ \t]*/ from end to end: a
\* pipe, something, a pipe, and blanks at most after it.
PipeRow(line) ==
  \E p \in 3..Len(line) :
    /\ line[1] = "|" /\ line[p] = "|"
    /\ \A q \in p + 1..Len(line) : line[q] \in {" ", "\t"}

\* The line matches the separator pattern: whitespace, dashes, colons and
\* pipes only, a dash among them.
SeparatorLine(line) ==
  /\ Trim(line) # <<>>
  /\ \A c \in Range(Trim(line)) : c \in {" ", "\t", "\n", "-", ":", "|"}
  /\ "-" \in Range(line)

\* The line holds blanks at most.
BlankLine(line) == \A c \in Range(line) : c \in {" ", "\t"}

\* A candidate block is a row and the rows and blank lines that follow it
\* without a break, each ended by a line feed.  lines are the pieces of the
\* text between its line feeds, the last of them with no line feed after it.
InBlock(lines, i) ==
  \E j \in 1..i :
    PipeRow(lines[j]) /\ \A k \in j..i : PipeRow(lines[k]) \/ BlankLine(lines[k])
BlockFirst(lines, i) ==
  Min({j \in 1..i : PipeRow(lines[j]) /\ \A k \in j..i : PipeRow(lines[k]) \/ BlankLine(lines[k])})
BlockLast(lines, i) ==
  Max({j \in i..Len(lines) - 1 : \A k \in i..j : PipeRow(lines[k]) \/ BlankLine(lines[k])})

\* The non-empty lines of the candidate block line i is in.
BlockOf(lines, i) == SelectSeq(SubSeq(lines, BlockFirst(lines, i), BlockLast(lines, i)), PipeRow)

\* The number of lines of the block before its first separator line; the
\* number of its lines when it has none.
HeaderLines(block) ==
  Min({k \in 1..Len(block) : SeparatorLine(block[k])} \cup {Len(block) + 1}) - 1

\* The rule of the claim: at least 2 lines, a separator line among them, and
\* the first separator line not the first line.
IsTableBlock(block) ==
  Len(block) >= 2 /\ HeaderLines(block) < Len(block) /\ HeaderLines(block) > 0

\* What the claim has the parser return: every candidate block that passes
\* the rule replaced by a table, all the rest as it stands.  The table begins
\* with a line feed, which stands for the one that ends the line before the
\* block.
ExpectedTables(text) ==
  LET lines == Split(text, "\n")
      Piece(i) ==
        IF ~InBlock(lines, i) \/ ~IsTableBlock(BlockOf(lines, i)) THEN lines[i] \o <<"\n">>
        ELSE IF i # BlockFirst(lines, i) THEN <<>>
        ELSE IF i = 1 THEN TableHTML(BlockOf(lines, i), HeaderLines(BlockOf(lines, i)))
        ELSE Tail(TableHTML(BlockOf(lines, i), HeaderLines(BlockOf(lines, i))))
  IN Concat([i \in 1..Len(lines) - 1 |-> Piece(i)]) \o Last(lines)

\* The candidate blocks of the text that pass the rule, in order.
TableBlocks(text) ==
  LET lines  == Split(text, "\n")
      firsts == {i \in 1..Len(lines) - 1 :
                   PipeRow(lines[i]) /\ i = BlockFirst(lines, i) /\ IsTableBlock(BlockOf(lines, i))}
  IN [k \in 1..Cardinality(firsts) |-> BlockOf(lines, Sorted(firsts)[k])]

\* The rows of the section (thead or tbody) of a table element: the text of
\* each cell of each tr.
SectionRows(table, section) ==
  LET inside == Concat([i \in 1..Len(table.kids) |->
                          IF table.kids[i].tag = section THEN table.kids[i].kids ELSE <<>>])
      trs    == SelectSeq(inside, LAMBDA node : node.tag = "tr")
  IN [r \in 1..Len(trs) |->
        LET cells == SelectSeq(trs[r].kids, IsElement)
        IN [c \in 1..Len(cells) |-> TextContent(cells[c])]]

\* C7: parseMarkdownTables returns the text with a table in place of every
\* candidate pipe block that has at least 2 lines and whose first separator
\* line is not its first line, and with every other block and line
\* unchanged; the header rows of each table are the lines of its block
\* before that separator line and its body rows are the lines after it.
C7_SeparatorPosition ==
  Len(out) >= 1 =>
    /\ out[1] = Str(ExpectedTables(arg.s))
    /\ LET blocks == TableBlocks(arg.s)
           tables == SelectSeq(Elements(ParseHTML(out[1].s)), LAMBDA el : el.tag = "table")
       IN /\ Len(tables) = Len(blocks)
          /\ \A k \in 1..Len(blocks) :
               LET sep == HeaderLines(blocks[k]) + 1 IN
               /\ SectionRows(tables[k], "thead")
                    = [r \in 1..sep - 1 |-> parseTableRow(blocks[k][r])]
               /\ SectionRows(tables[k], "tbody")
                    = [r \in 1..Len(blocks[k]) - sep |-> parseTableRow(blocks[k][sep + r])]

\* A block with two separator lines has become a table whose header is the
\* line before the first of them, next to a block left as it was: its
\* separator line is its first line.
C7_Witness ==
  /\ Len(out) = 1
  /\ arg = Str(<<"|", "a", "|", "b", "|", "\n", "|", "-", "|", "-", "|", "\n",
                 "|", ":", "-", "|", "-", ":", "|", " ", "\n", "x", "\n">>)
  /\ Len(SectionRows(Elements(ParseHTML(out[1].s))[1], "thead")) = 1
  /\ Len(SectionRows(Elements(ParseHTML(out[1].s))[1], "tbody")) = 1

\* C8: parseMarkdownTables(parseMarkdownTables(t)) equals parseMarkdownTables(t).
C8_TablesIdempotent ==
  stage = "parseMarkdownTables" /\ Len(out) = 2 => parseMarkdownTables(out[1]) = out[1] /\ out[2] = out[1]

\* A text with a block that became a table and a block that stayed has gone
\* through the parser twice.
C8_Witness ==
  /\ Len(out) = 2
  /\ arg = Str(<<"|", "a", "|", "b", "|", "\n", "|", "-", "|", "-", "|", "\n", "x", "\n",
                 "|", "a", "|", "b", "|", "\n">>)
  /\ "<table" \in Range(out[1].s)
  /\ OccursAt(out[1].s, <<"x", "\n", "|", "a", "|", "b", "|", "\n">>, Len(out[1].s) - 7)

-----------------------------------------------------------------------------
(* markdownToHTML, app.js:142-209 *)

MaxSpans == 3

\* Pieces of Markdown: an inline code span, a fenced block, emphasis marks,
\* text, a blank and a line feed.
MarkdownFragments ==
  { <<Backtick, "a", Backtick>>,
    <<Backtick, Backtick, Backtick, "js", "\n", "x", "\n", Backtick, Backtick, Backtick>>,
    <<"*">>, <<"_">>, <<"x">>, <<" ">>, <<"\n">> }

InitMarkdown ==
  /\ stage = "markdownToHTML"
  /\ arg \in {Str(markdown) : markdown \in Pieced(MarkdownFragments, MaxSpans)}
  /\ out = <<>>
  /\ ChatIdle

\* html = markdownToHTML(arg)
Markdown ==
  /\ out = <<>>
  /\ out' = <<markdownToHTML(arg)>>
  /\ UNCHANGED <<chatVars, stage, arg>>

NextMarkdown == Markdown

SpecMarkdown == InitMarkdown /\ [][NextMarkdown]_vars

\* The state of markdownToHTML when restoration starts: after the soft
\* breaks of app.js:202.
BeforeRestore(markdown) == After(markdown, 24)

\* C5: every placeholder token the protection stages put in is whole when
\* restoration starts, and no placeholder token is left in what
\* markdownToHTML returns.
C5_CodeProtected ==
  Len(out) = 1 =>
    /\ \A k \in 1..Len(BeforeRestore(arg.s).inlineCodes) :
         IndexOf(BeforeRestore(arg.s).html, InlineCodeToken(k - 1)) # 0
    /\ \A k \in 1..Len(BeforeRestore(arg.s).codeBlocks) :
         IndexOf(BeforeRestore(arg.s).html, CodeBlockToken(k - 1)) # 0
    /\ \A c \in Range(out[1].s) : c \notin {"%%INLINECODE", "%%CODEBLOCK"}

\* Two inline code spans on one line: the italic rule has paired the
\* underscore of the first token with that of the second, and neither span
\* has been restored.
C5_EmphasisAcrossTokens ==
  /\ arg = Str(<<Backtick, "a", Backtick, " ", Backtick, "a", Backtick>>)
  /\ out = <<Str(<<"%%INLINECODE", "<em", ">", "0", "%%", " ", "%%INLINECODE", "</em>", "1", "%%">>)>>

-----------------------------------------------------------------------------
(* The four stages on the empty string and on values that are not strings. *)

MaxNumber == 20

Stages == {"parseMarkdownTables", "markdownToHTML", "sanitizeHTML", "processReplyContent"}

\* The empty string, null, undefined, an object and the numbers up to MaxNumber.
NonTexts == {EmptyString, JsNull, Undefined, JsObject} \cup {Num(n) : n \in 0..MaxNumber}

InitGuards ==
  /\ stage \in Stages
  /\ arg \in NonTexts
  /\ out = <<>>
  /\ ChatIdle

CallParseMarkdownTables ==
  /\ stage = "parseMarkdownTables" /\ out = <<>>
  /\ out' = <<parseMarkdownTables(arg)>>
  /\ UNCHANGED <<chatVars, stage, arg>>

CallMarkdownToHTML ==
  /\ stage = "markdownToHTML" /\ out = <<>>
  /\ out' = <<markdownToHTML(arg)>>
  /\ UNCHANGED <<chatVars, stage, arg>>

CallSanitizeHTML ==
  /\ stage = "sanitizeHTML" /\ out = <<>>
  /\ out' = <<sanitizeHTML(arg)>>
  /\ UNCHANGED <<chatVars, stage, arg>>

CallProcessReplyContent ==
  /\ stage = "processReplyContent" /\ out = <<>>
  /\ out' = <<processReplyContent(arg)>>
  /\ UNCHANGED <<chatVars, stage, arg>>

NextGuards ==
  \/ CallParseMarkdownTables
  \/ CallMarkdownToHTML
  \/ CallSanitizeHTML
  \/ CallProcessReplyContent

SpecGuards == InitGuards /\ [][NextGuards]_vars

\* C9: each of the four stages, given the empty string or a value that is
\* not a string, returns the empty string.
C9_EmptyForNonText ==
  Len(out) = 1 /\ arg \in NonTexts => out[1] = EmptyString

\* sanitizeHTML has been given undefined and has returned the word.
C9_UndefinedSpelled ==
  /\ stage = "sanitizeHTML" /\ arg = Undefined
  /\ out = <<Str(<<"undefined">>)>>

-----------------------------------------------------------------------------
(* The chat: what is rendered, the send latch and the shape of the log.    *)

\* The characters of a text, special ones one by one.
Spelled(cs) == Concat([i \in 1..Len(cs) |-> Spell(cs[i])])

\* The text the nodes spell together.
TextOf(nodes) == Concat([i \in 1..Len(nodes) |-> TextContent(nodes[i])])

\* What markdownToHTML and then sanitizeHTML make of each text a reply or an
\* error of the model may hold.
Pipeline == [text \in ReplyTexts |-> sanitizeHTML(markdownToHTML(Str(text))).s]

\* C2: every row of a render is the bubble of the message at its place; the
\* bubble of a user message comes from escapeHTML alone, holds no element
\* and spells the text of the message; the bubble of an assistant message is
\* what markdownToHTML followed by sanitizeHTML make of its text.
C2_UserTextEscaped ==
  /\ Len(view) = Len(messages)
  /\ \A i \in 1..Len(view) :
       /\ view[i].role = messages[i].role
       /\ messages[i].role = "user" =>
            /\ view[i].via = "escapeHTML"
            /\ Elements(ParseHTML(view[i].html)) = <<>>
            /\ TextOf(ParseHTML(view[i].html)) = Spelled(messages[i].text)
       /\ messages[i].role = "assistant" =>
            /\ view[i].via = "processReplyContent"
            /\ view[i].html = Pipeline[messages[i].text]

\* The user has sent an img tag with an onerror handler and then bold
\* Markdown: both are on the page as text, next to a reply the pipeline has
\* built an element from and taken the script element out of.
C2_Witness ==
  /\ Len(messages) >= 4
  /\ messages[2] = userMsg(<<"<img", " src=\"", "x", "\"", " onerror=\"", "y", "\"", ">">>)
  /\ view[2].html = <<"&lt;", "img", " src=\"", "x", "\"", " onerror=\"", "y", "\"", "&gt;">>
  /\ messages[4] = userMsg(<<"*", "*", "b", "*", "*">>)
  /\ view[4].html = <<"*", "*", "b", "*", "*">>
  /\ "<script" \in Range(messages[3].text)
  /\ "<em" \in Range(view[3].html) /\ "<script" \notin Range(view[3].html)

\* C3: at most one request is in flight, the input and the button are
\* disabled while it is, and a send is taken only when no request is in
\* flight and the reply or the error of the one before is the last row on
\* the page.
C3_SendLatch ==
  /\ [](Len(calls) <= 1 /\ (calls # <<>> => inputOff /\ btnOff /\ thinkingOn))
  /\ [][sent' > sent =>
          /\ calls = <<>>
          /\ Last(messages).role = "assistant"
          /\ Len(view) = Len(messages)
          /\ Last(view).html = Pipeline[Last(messages).text]]_vars

\* The second send is in flight, after the reply to the first: the controls
\* are off again.
C3_Witness ==
  /\ sent = 2 /\ Len(calls) = 1 /\ Len(messages) = 4
  /\ inputOff /\ btnOff /\ thinkingOn

\* The log is the welcome message and then user and assistant messages in
\* turn, the last of them a user message while its request is in flight.
LogShape ==
  /\ messages[1] = botMsg(Welcome)
  /\ Len(messages) = 1 + 2 * sent - Len(calls)
  /\ \A i \in 2..Len(messages) :
       messages[i].role = (IF i % 2 = 0 THEN "user" ELSE "assistant")

\* A step appends to the log or leaves it; a send appends the trimmed,
\* non-blank content as a user message and starts one request; the end of a
\* request, by whichever path, appends one assistant message.
LogStep ==
  /\ messages' = messages \/ \E m \in LogEntries : messages' = Append(messages, m)
  /\ sent' # sent =>
       /\ Trim(inputValue) # <<>>
       /\ sent' = sent + 1
       /\ messages' = Append(messages, userMsg(Trim(inputValue)))
       /\ Len(calls') = Len(calls) + 1
  /\ Len(calls') > Len(calls) => sent' = sent + 1
  /\ Len(calls') < Len(calls) =>
       /\ Len(calls') = Len(calls) - 1
       /\ \E text \in ReplyTexts : messages' = Append(messages, botMsg(text))
  /\ Len(calls') = Len(calls) /\ sent' = sent => messages' = messages

\* C10: a send with non-blank content appends one user message and every
\* end of its request one assistant message after it, a blank send appends
\* nothing and starts no request, and the log only grows: the welcome
\* message, then user and assistant messages in turn.
C10_OneReplyPerSend == []LogShape /\ [][LogStep]_vars

\* Two sends have completed, the first by the catch block (the browser
\* offline), the second by a reply: the log holds five messages.
C10_Witness ==
  /\ sent = 2 /\ calls = <<>> /\ Len(messages) = 5
  /\ messages[3] = botErr(friendly(FALSE, <<>>))
  /\ messages[5] = botMsg(replyText(DataOf(<<"\"", " ", "\"">>)))

=============================================================================
